---- MODULE Spec2Model ----
(***************************************************************************)
(* Model of route/main_darwin.go: one run of main() -- banner, FetchRIB,   *)
(* ParseRIB, tabwriter creation, header, one dump() per message, deferred  *)
(* Flush -- and of the pure helpers dump(), getFlags() and the isFlag*     *)
(* predicates.                                                             *)
(*                                                                         *)
(* Standard output is a sequence of lines.  fmt.Println / fmt.Printf write *)
(* their line at once; the tabwriter keeps the cells it was handed until   *)
(* Flush and then writes them as aligned lines.  A "%v" of a message or of *)
(* an address inside a diagnostic is rendered as a fixed token, since Go   *)
(* prints pointers there.                                                  *)
(***************************************************************************)
EXTENDS Integers, Sequences, FiniteSets, TLC

VARIABLES pc, msgs, i, stdout, stderr, writer, flushes, exit, flagIn, flagOut

vars == <<pc, msgs, i, stdout, stderr, writer, flushes, exit, flagIn, flagOut>>

(***************************************************************************)
(* Bounds of the model.                                                    *)
(***************************************************************************)
MaxMsgs == 2
MaxFlagBits == 2

(***************************************************************************)
(* Constants of package syscall (darwin) used by the program.              *)
(***************************************************************************)
AF_INET == 2
AF_LINK == 18
AF_INET6 == 30

RTF_UP == 1
RTF_GATEWAY == 2
RTF_HOST == 4
RTF_REJECT == 8
RTF_DYNAMIC == 16
RTF_MODIFIED == 32
RTF_DONE == 64
RTF_DELCLONE == 128
RTF_CLONING == 256
RTF_XRESOLVE == 512
RTF_LLINFO == 1024
RTF_STATIC == 2048
RTF_BLACKHOLE == 4096
RTF_PROTO2 == 16384
RTF_PROTO1 == 32768
RTF_PRCLONING == 65536
RTF_WASCLONED == 131072
RTF_PROTO3 == 262144
RTF_PINNED == 1048576
RTF_LOCAL == 2097152
RTF_BROADCAST == 4194304
RTF_MULTICAST == 8388608
RTF_IFSCOPE == 16777216
RTF_CONDEMNED == 33554432
RTF_IFREF == 67108864
\* a route flag of the kernel that getFlags does not test
RTF_ROUTER == 2 ^ 28

(***************************************************************************)
(* Integer helpers: Go's & on non-negative ints.                           *)
(***************************************************************************)
RECURSIVE BitAnd(_, _)
BitAnd(a, b) ==
    IF a = 0 \/ b = 0 THEN 0
    ELSE (IF a % 2 = 1 /\ b % 2 = 1 THEN 1 ELSE 0) + 2 * BitAnd(a \div 2, b \div 2)

\* the test  t&F == F  every flag predicate of the program is written as
HasFlag(t, f) == BitAnd(t, f) = f

isFlagGateway(t) == HasFlag(t, RTF_GATEWAY)

isFlagHost(t) == HasFlag(t, RTF_HOST)

\* the interface-reference test reading the interface-scope bit
isFlagIFRef_IfScope(t) == HasFlag(t, RTF_IFSCOPE)

isFlagIFRef(t) == HasFlag(t, RTF_IFREF)

(***************************************************************************)
(* getFlags: the chain of 25 tests, in the order of the source.            *)
(***************************************************************************)
FlagTable ==
    << <<RTF_BLACKHOLE, "RTF_BLACKHOLE">>, <<RTF_BROADCAST, "RTF_BROADCAST">>,
       <<RTF_CLONING, "RTF_CLONING">>,     <<RTF_CONDEMNED, "RTF_CONDEMNED">>,
       <<RTF_DELCLONE, "RTF_DELCLONE">>,   <<RTF_DONE, "RTF_DONE">>,
       <<RTF_DYNAMIC, "RTF_DYNAMIC">>,     <<RTF_GATEWAY, "RTF_GATEWAY">>,
       <<RTF_HOST, "RTF_HOST">>,           <<RTF_IFREF, "RTF_IFREF">>,
       <<RTF_IFSCOPE, "RTF_IFSCOPE">>,     <<RTF_LLINFO, "RTF_LLINFO">>,
       <<RTF_LOCAL, "RTF_LOCAL">>,         <<RTF_MODIFIED, "RTF_MODIFIED">>,
       <<RTF_MULTICAST, "RTF_MULTICAST">>, <<RTF_PINNED, "RTF_PINNED">>,
       <<RTF_PRCLONING, "RTF_PRCLONING">>, <<RTF_PROTO1, "RTF_PROTO1">>,
       <<RTF_PROTO2, "RTF_PROTO2">>,       <<RTF_PROTO3, "RTF_PROTO3">>,
       <<RTF_REJECT, "RTF_REJECT">>,       <<RTF_STATIC, "RTF_STATIC">>,
       <<RTF_UP, "RTF_UP">>,               <<RTF_WASCLONED, "RTF_WASCLONED">>,
       <<RTF_XRESOLVE, "RTF_XRESOLVE">> >>

RECURSIVE getFlagsFrom(_, _, _)
getFlagsFrom(t, k, ret) ==
    IF k > Len(FlagTable) THEN ret
    ELSE getFlagsFrom(t, k + 1,
            IF HasFlag(t, FlagTable[k][1]) THEN Append(ret, FlagTable[k][2]) ELSE ret)

\* the test of RTF_UP moved to the head of the chain
getFlags_UpFirst(t) ==
    (IF HasFlag(t, RTF_UP) THEN <<"RTF_UP">> ELSE <<>>)
        \o SelectSeq(getFlagsFrom(t, 1, <<>>), LAMBDA n : n # "RTF_UP")

getFlags(t) == getFlagsFrom(t, 1, <<>>)

(***************************************************************************)
(* fmt verbs.                                                              *)
(***************************************************************************)
\* "%d.%d.%d.%d"
DottedQuad(ip) ==
    ToString(ip[1]) \o "." \o ToString(ip[2]) \o "." \o ToString(ip[3]) \o "." \o ToString(ip[4])

HexDigits == <<"0", "1", "2", "3", "4", "5", "6", "7", "8", "9", "a", "b", "c", "d", "e", "f">>

\* "%x" of one byte
FmtHex(b) ==
    IF b < 16 THEN HexDigits[b + 1]
    ELSE HexDigits[(b \div 16) + 1] \o HexDigits[(b % 16) + 1]

\* strings.Join
RECURSIVE Join(_, _)
Join(a, sep) ==
    IF Len(a) = 0 THEN ""
    ELSE IF Len(a) = 1 THEN a[1]
    ELSE a[1] \o sep \o Join(Tail(a), sep)

\* the loop of lines 149-153 over link.Addr
HwString(hw) == Join([k \in 1..Len(hw) |-> FmtHex(hw[k])], ":")

\* "%v" of a []string
FmtStrings(a) == "[" \o Join(a, " ") \o "]"

(***************************************************************************)
(* Addresses (route.Addr) and messages (route.Message).  Every slot of     *)
(* RouteMessage.Addrs holds one of these; NilAddr is the nil interface.    *)
(***************************************************************************)
NilAddr == [kind |-> "nil", IP |-> <<>>, Index |-> 0, Addr |-> <<>>]

Inet4(a, b, c, d) == [kind |-> "Inet4Addr", IP |-> <<a, b, c, d>>, Index |-> 0, Addr |-> <<>>]

Link(idx, hw) == [kind |-> "LinkAddr", IP |-> <<>>, Index |-> idx, Addr |-> hw]

Inet6 == [kind |-> "Inet6Addr", IP |-> <<>>, Index |-> 0, Addr |-> <<>>]

\* Addr.Family() of the library's address types
Family(a) ==
    CASE a.kind = "Inet4Addr" -> AF_INET
      [] a.kind = "LinkAddr"  -> AF_LINK
      [] a.kind = "Inet6Addr" -> AF_INET6
      [] OTHER                -> 0

RouteMsg(flags, index, addrs) == [isRoute |-> TRUE, Flags |-> flags, Index |-> index, Addrs |-> addrs]

\* a message of another type (InterfaceMessage, InterfaceAddrMessage, ...)
OtherMsg == [isRoute |-> FALSE, Flags |-> 0, Index |-> 0, Addrs |-> <<>>]

(***************************************************************************)
(* The OS interface table behind net.InterfaceByIndex.                     *)
(***************************************************************************)
Interfaces == (1 :> "lo0") @@ (4 :> "en0")

InterfaceByIndex(index) ==
    IF index <= 0 THEN [ok |-> FALSE, Name |-> "", err |-> "route ip+net: invalid network interface index"]
    ELSE IF index \notin DOMAIN Interfaces
         THEN [ok |-> FALSE, Name |-> "", err |-> "route ip+net: no such network interface"]
         ELSE [ok |-> TRUE, Name |-> Interfaces[index], err |-> ""]

(***************************************************************************)
(* net.IPv4Mask(a, b, c, d).Size(): the number of leading one-bits of a    *)
(* mask in canonical form (ones followed by zeros), and 0 for any other    *)
(* mask.                                                                   *)
(***************************************************************************)
RECURSIVE simpleMaskLength(_, _, _)
simpleMaskLength(mask, k, n) ==
    IF k > Len(mask) THEN n
    ELSE IF mask[k] = 255 THEN simpleMaskLength(mask, k + 1, n + 8)
    ELSE LET ones == CHOOSE j \in 0..8 :
                        /\ \A q \in 1..j : (mask[k] \div (2 ^ (8 - q))) % 2 = 1
                        /\ (j < 8 => (mask[k] \div (2 ^ (7 - j))) % 2 = 0)
             rest == mask[k] % (2 ^ (8 - ones))
         IN IF rest # 0 \/ \E q \in (k + 1)..Len(mask) : mask[q] # 0
            THEN -1
            ELSE n + ones

MaskSize(mask) ==
    LET ones == simpleMaskLength(mask, 1, 0)
    IN IF ones = -1 THEN 0 ELSE ones

(***************************************************************************)
(* dump(): what one route message contributes -- at most one table row     *)
(* (the cells of the line handed to the writer) and at most one diagnostic *)
(* line on standard output.                                                *)
(***************************************************************************)
NoOutput == [row |-> <<>>, diag |-> <<>>]

Diag(line) == [row |-> <<>>, diag |-> <<line>>]

Row(cells) == [row |-> <<cells>>, diag |-> <<>>]

\* lines 95-101: the index of the first nil slot, and 0 when there is none
CountAddrs(addrs) ==
    IF \E k \in 1..Len(addrs) : addrs[k].kind = "nil"
    THEN (CHOOSE k \in 1..Len(addrs) :
             /\ addrs[k].kind = "nil"
             /\ \A j \in 1..(k - 1) : addrs[j].kind # "nil") - 1
    ELSE 0

\* the prefix length 0 printed like any other
Destination_NoDefault(destIP, len, addrs) ==
    IF len = 3
    THEN DottedQuad(destIP) \o "/" \o ToString(MaskSize(addrs[3].IP))
    ELSE DottedQuad(destIP)

\* lines 113-130, once the third address is known to be an Inet4Addr
Destination(destIP, len, addrs) ==
    IF len = 3
    THEN LET l == MaskSize(addrs[3].IP)
         IN IF l = 0 THEN "default"
            ELSE DottedQuad(destIP) \o "/" \o ToString(l)
    ELSE DottedQuad(destIP)

\* lines 146-154
LinkGateway(link, len) ==
    IF len = 3 THEN "link#" \o ToString(link.Index)
    ELSE HwString(link.Addr)

dump(msg) ==
    IF isFlagGateway(msg.Flags) /\ isFlagHost(msg.Flags) /\ isFlagIFRef(msg.Flags)
    THEN NoOutput
    ELSE LET intf == InterfaceByIndex(msg.Index)
             len  == CountAddrs(msg.Addrs)
         IN
         IF ~intf.ok
         THEN Diag("unable to find interface " \o ToString(msg.Index) \o ", " \o intf.err)
         ELSE IF len < 2
         THEN Diag("address should have at least 2 entries, but got &{...}")
         ELSE IF msg.Addrs[1].kind # "Inet4Addr"
         THEN Diag("destination address should be route.Inet4Addr, but got &{...}")
         ELSE IF len = 3 /\ Family(msg.Addrs[3]) # AF_INET
         THEN Diag("3rd address should be AF_INET type mask, but got &{...}")
         ELSE IF len = 3 /\ msg.Addrs[3].kind # "Inet4Addr"
         THEN Diag("3rd address should be route.Inet4Addr, but got &{...}")
         ELSE LET destination == Destination(msg.Addrs[1].IP, len, msg.Addrs)
                  flagsCell   == FmtStrings(getFlags(msg.Flags))
              IN
              IF Family(msg.Addrs[2]) = AF_INET
              THEN IF msg.Addrs[2].kind # "Inet4Addr"
                   THEN Diag("Unknown gateway INET addrs &{...}")
                   ELSE Row(<<destination, DottedQuad(msg.Addrs[2].IP), intf.Name, flagsCell>>)
              ELSE IF Family(msg.Addrs[2]) = AF_LINK
              THEN IF msg.Addrs[2].kind # "LinkAddr"
                   THEN Diag("Unknown gateway link addrs &{...}")
                   ELSE Row(<<destination, LinkGateway(msg.Addrs[2], len), intf.Name, flagsCell>>)
              ELSE Diag("Unknown gateway addrs &{...}")

(***************************************************************************)
(* text/tabwriter with minwidth 10, padding 2, padchar ' ', flags 0: a     *)
(* tab-terminated cell is padded to its column's width, the widest cell of *)
(* the column plus the padding and at least minwidth; the last cell of a   *)
(* line is written as it is.                                               *)
(***************************************************************************)
MinWidth == 10
Padding == 2

RECURSIVE Spaces(_)
Spaces(n) == IF n <= 0 THEN "" ELSE " " \o Spaces(n - 1)

RECURSIVE MaxCell(_, _, _)
MaxCell(buf, c, k) ==
    IF k > Len(buf) THEN 0
    ELSE LET rest == MaxCell(buf, c, k + 1)
             w    == IF c < Len(buf[k]) THEN Len(buf[k][c]) ELSE 0
         IN IF w > rest THEN w ELSE rest

ColumnWidth(buf, c) ==
    LET w == MaxCell(buf, c, 1) + Padding
    IN IF w > MinWidth THEN w ELSE MinWidth

RECURSIVE FormatLine(_, _, _)
FormatLine(buf, line, c) ==
    IF c >= Len(line) THEN line[c]
    ELSE line[c] \o Spaces(ColumnWidth(buf, c) - Len(line[c])) \o FormatLine(buf, line, c + 1)

Flush(buf) == [k \in 1..Len(buf) |-> FormatLine(buf, buf[k], 1)]

Header == <<"Destination", "Gateway", "Netif", "Flags">>

Banner == "mac's equivalant command: net -nr"

(***************************************************************************)
(* Inputs: the message sequences ParseRIB may return.  Addrs always has    *)
(* RTAX_MAX slots; a slot whose attribute bit is clear is nil.             *)
(***************************************************************************)
TailNone == <<NilAddr, NilAddr, NilAddr, NilAddr, NilAddr>>

\* no genmask, but interface name and interface address attached
TailIf == <<NilAddr, Link(4, <<>>), Inet4(10, 0, 0, 5), NilAddr, NilAddr>>

\* a genmask in slot 3
TailGen == <<Inet4(0, 0, 0, 0), NilAddr, NilAddr, NilAddr, NilAddr>>

\* every attribute present
TailFull == <<Inet4(0, 0, 0, 0), Link(4, <<>>), Inet4(10, 0, 0, 5), Inet4(10, 0, 0, 9), Inet4(10, 0, 0, 255)>>

Tails == {TailNone, TailIf, TailGen, TailFull}

DstChoices == {NilAddr, Inet4(0, 0, 0, 0), Inet4(10, 0, 0, 0), Link(4, <<>>)}

GwChoices ==
    {NilAddr, Inet4(10, 0, 0, 1), Inet4(192, 168, 1, 1),
     Link(5, <<2, 171>>), Link(4, <<0, 16, 255, 9>>), Link(6, <<>>), Inet6}

MaskChoices ==
    {NilAddr, Inet4(0, 0, 0, 0), Inet4(255, 0, 0, 0), Inet4(255, 255, 254, 0),
     Inet4(255, 255, 255, 0), Inet4(255, 255, 255, 255), Inet4(255, 0, 255, 0),
     Inet4(0, 255, 255, 255), Link(4, <<>>)}

FlagChoices ==
    {0, RTF_UP + RTF_GATEWAY, RTF_UP + RTF_HOST + RTF_LLINFO,
     RTF_GATEWAY + RTF_HOST + RTF_IFREF,
     RTF_UP + RTF_GATEWAY + RTF_HOST + RTF_IFREF + RTF_STATIC + RTF_ROUTER,
     RTF_UP + RTF_GATEWAY + RTF_IFREF, RTF_UP + RTF_HOST + RTF_IFREF,
     RTF_UP + RTF_GATEWAY + RTF_HOST + RTF_ROUTER}

IndexChoices == {0, 1, 4, 7}

Addrs(dst, gw, mask, tail) == <<dst, gw, mask>> \o tail

RichMsgs ==
    {RouteMsg(f, x, Addrs(d, g, m, t)) :
        f \in FlagChoices, x \in IndexChoices, d \in DstChoices,
        g \in GwChoices, m \in MaskChoices, t \in Tails}

CoreMsgs ==
    { OtherMsg,
      RouteMsg(RTF_UP + RTF_GATEWAY, 4,
               Addrs(Inet4(0, 0, 0, 0), Inet4(10, 0, 0, 1), Inet4(0, 0, 0, 0), TailNone)),
      RouteMsg(RTF_UP + RTF_STATIC, 4,
               Addrs(Inet4(10, 0, 0, 0), Link(5, <<2, 171>>), Inet4(255, 255, 255, 0), TailIf)),
      RouteMsg(RTF_UP + RTF_HOST + RTF_LLINFO, 1,
               Addrs(Inet4(10, 0, 0, 0), Link(5, <<2, 171>>), NilAddr, TailNone)),
      RouteMsg(RTF_UP + RTF_GATEWAY + RTF_HOST, 4,
               Addrs(Inet4(10, 0, 0, 7), Inet4(192, 168, 1, 1), NilAddr, TailIf)),
      RouteMsg(RTF_UP + RTF_GATEWAY + RTF_HOST + RTF_IFREF + RTF_ROUTER, 4,
               Addrs(Inet4(10, 0, 0, 0), Inet4(10, 0, 0, 1), NilAddr, TailNone)),
      RouteMsg(RTF_UP + RTF_GATEWAY, 7,
               Addrs(Inet4(10, 0, 0, 0), Inet4(10, 0, 0, 1), Inet4(255, 0, 0, 0), TailNone)),
      RouteMsg(RTF_UP, 4,
               Addrs(Inet4(10, 0, 0, 0), NilAddr, NilAddr, TailNone)),
      RouteMsg(RTF_UP, 4,
               Addrs(Link(4, <<>>), Inet4(10, 0, 0, 1), NilAddr, TailNone)),
      RouteMsg(RTF_UP, 4,
               Addrs(Inet4(10, 0, 0, 0), Inet6, NilAddr, TailNone)),
      RouteMsg(RTF_UP, 4,
               Addrs(Inet4(10, 0, 0, 0), Inet4(10, 0, 0, 1), Link(4, <<>>), TailNone)),
      RouteMsg(RTF_UP, 4,
               Addrs(Inet4(10, 0, 0, 0), Inet4(10, 0, 0, 1), Inet4(255, 0, 255, 0), TailNone)),
      RouteMsg(RTF_UP, 4,
               Addrs(Inet4(10, 0, 0, 0), Link(5, <<2, 171>>), Inet4(255, 255, 255, 0), TailGen)),
      RouteMsg(RTF_UP, 4,
               Addrs(Inet4(10, 0, 0, 0), Inet4(10, 0, 0, 1), Inet4(255, 255, 255, 0), TailFull)) }

RIBs ==
    {<<m>> : m \in RichMsgs} \cup UNION {[1..n -> CoreMsgs] : n \in 0..MaxMsgs}

(***************************************************************************)
(* main().  pc is the statement about to run.                              *)
(***************************************************************************)
Init ==
    /\ pc = "banner"
    /\ msgs = <<>>
    /\ i = 0
    /\ stdout = <<>>
    /\ stderr = <<>>
    /\ writer = [created |-> FALSE, buf |-> <<>>]
    /\ flushes = 0
    /\ exit = -1
    /\ flagIn = 0
    /\ flagOut = <<>>

\* line 60
PrintBanner ==
    /\ pc = "banner"
    /\ stdout' = Append(stdout, Banner)
    /\ pc' = "fetch"
    /\ UNCHANGED <<msgs, i, stderr, writer, flushes, exit, flagIn, flagOut>>

\* log.Fatal: the error on standard error, then os.Exit(1); no deferred call runs
Fatal(what) ==
    /\ stderr' = Append(stderr, what)
    /\ exit' = 1
    /\ pc' = "exited"
    /\ UNCHANGED <<msgs, i, stdout, writer, flushes, flagIn, flagOut>>

\* lines 62-65, FetchRIB returning an error
FetchFail ==
    /\ pc = "fetch"
    /\ Fatal("route rib fetch failed")

\* line 62, FetchRIB returning the raw buffer
FetchOK ==
    /\ pc = "fetch"
    /\ pc' = "parse"
    /\ UNCHANGED <<msgs, i, stdout, stderr, writer, flushes, exit, flagIn, flagOut>>

\* lines 66-69, ParseRIB returning an error
ParseFail ==
    /\ pc = "parse"
    /\ Fatal("route rib parse failed")

\* line 66, ParseRIB returning the messages
ParseOK ==
    /\ pc = "parse"
    /\ \E rib \in RIBs : msgs' = rib
    /\ pc' = "open"
    /\ UNCHANGED <<i, stdout, stderr, writer, flushes, exit, flagIn, flagOut>>

\* lines 70-73: NewWriter, defer Flush, the header line
OpenWriter ==
    /\ pc = "open"
    /\ writer' = [created |-> TRUE, buf |-> <<Header>>]
    /\ i' = 1
    /\ pc' = "loop"
    /\ UNCHANGED <<msgs, stdout, stderr, flushes, exit, flagIn, flagOut>>

\* lines 76-77: a route message goes through dump
DumpRoute ==
    /\ pc = "loop"
    /\ i <= Len(msgs)
    /\ msgs[i].isRoute
    /\ LET out == dump(msgs[i])
       IN /\ writer' = [writer EXCEPT !.buf = @ \o out.row]
          /\ stdout' = stdout \o out.diag
    /\ i' = i + 1
    /\ UNCHANGED <<pc, msgs, stderr, flushes, exit, flagIn, flagOut>>

\* lines 78-80: any other message is reported
ReportNonRoute ==
    /\ pc = "loop"
    /\ i <= Len(msgs)
    /\ ~msgs[i].isRoute
    /\ stdout' = Append(stdout, "received non route message:  &{...}")
    /\ i' = i + 1
    /\ UNCHANGED <<pc, msgs, stderr, writer, flushes, exit, flagIn, flagOut>>

\* main returning without the deferred Flush
Return_NoFlush ==
    /\ pc = "loop"
    /\ i > Len(msgs)
    /\ exit' = 0
    /\ pc' = "exited"
    /\ UNCHANGED <<msgs, i, stdout, stderr, writer, flushes, flagIn, flagOut>>

\* line 82 with the deferred call of line 71: Flush, then exit status 0
Return ==
    /\ pc = "loop"
    /\ i > Len(msgs)
    /\ stdout' = stdout \o Flush(writer.buf)
    /\ writer' = [writer EXCEPT !.buf = <<>>]
    /\ flushes' = flushes + 1
    /\ exit' = 0
    /\ pc' = "exited"
    /\ UNCHANGED <<msgs, i, stderr, flagIn, flagOut>>

Next ==
    \/ PrintBanner
    \/ FetchFail
    \/ FetchOK
    \/ ParseFail
    \/ ParseOK
    \/ OpenWriter
    \/ DumpRoute
    \/ ReportNonRoute
    \/ Return

Spec == Init /\ [][Next]_vars

(***************************************************************************)
(* getFlags on its own: every mask of at most MaxFlagBits bits among the   *)
(* low 29, and the mask of all of them.                                    *)
(***************************************************************************)
Bits == {2 ^ k : k \in 0..28}

RECURSIVE FlagSums(_)
FlagSums(n) ==
    IF n = 0 THEN {0}
    ELSE LET prev == FlagSums(n - 1)
         IN prev \cup UNION {{s + b : b \in {c \in Bits : (s \div c) % 2 = 0}} : s \in prev}

FlagInputs == FlagSums(MaxFlagBits) \cup {2 ^ 29 - 1}

InitFlags ==
    /\ pc = "getFlags"
    /\ flagIn \in FlagInputs
    /\ flagOut = <<>>
    /\ msgs = <<>>
    /\ i = 0
    /\ stdout = <<>>
    /\ stderr = <<>>
    /\ writer = [created |-> FALSE, buf |-> <<>>]
    /\ flushes = 0
    /\ exit = -1

CallGetFlags ==
    /\ pc = "getFlags"
    /\ flagOut' = getFlags(flagIn)
    /\ pc' = "returned"
    /\ UNCHANGED <<msgs, i, stdout, stderr, writer, flushes, exit, flagIn>>

NextFlags == CallGetFlags

FlagSpec == InitFlags /\ [][NextFlags]_vars

(***************************************************************************)
(* Vocabulary of the properties.                                           *)
(***************************************************************************)
\* bit k of t, read off the binary expansion
BitSet(t, k) == (t \div (2 ^ k)) % 2 = 1

\* gateway (bit 1), host (bit 2) and interface-reference (bit 26) all set
DropFlagged(m) == BitSet(m.Flags, 1) /\ BitSet(m.Flags, 2) /\ BitSet(m.Flags, 26)

\* the mapper is about to handle msgs[i]
Mapping == pc = "loop" /\ i <= Len(msgs) /\ msgs[i].isRoute

\* the step that handles msgs[i]
Mapped == Mapping /\ i' = i + 1

RowsAdded == Len(writer'.buf) - Len(writer.buf)

DiagsAdded == Len(stdout') - Len(stdout)

NewRow == writer'.buf[Len(writer'.buf)]

Populated(a) == a.kind # "nil"

\* the number of slots before the first absent one; all of them when none is absent
PopulatedCount(addrs) ==
    IF \A k \in 1..Len(addrs) : Populated(addrs[k]) THEN Len(addrs)
    ELSE Cardinality({k \in 1..Len(addrs) : \A j \in 1..k : Populated(addrs[j])})

\* bit q (1 the most significant, 32 the least) of the four octets read as
\* one big-endian 32-bit value
MaskBit(ip, q) == BitSet(ip[((q - 1) \div 8) + 1], 7 - ((q - 1) % 8))

\* the number of leading one-bits of that value
LeadingOnes32(ip) == Cardinality({n \in 1..32 : \A q \in 1..n : MaskBit(ip, q)})

(***************************************************************************)
(* C1.  No row is ever emitted for a route message whose flags have        *)
(* RTF_GATEWAY, RTF_HOST and RTF_IFREF all set, whatever else it carries:  *)
(* the mapper passes over it without a row and without a diagnostic.  A    *)
(* message with at most two of the three bits is never passed over in      *)
(* silence: it gets its row or its diagnostic.                             *)
(***************************************************************************)
C1_DropRule ==
    [][ Mapped =>
          /\ DropFlagged(msgs[i]) => (RowsAdded = 0 /\ DiagsAdded = 0)
          /\ ~DropFlagged(msgs[i]) => (RowsAdded + DiagsAdded = 1) ]_vars

\* a dropped message with further flag bits and good addresses, then a kept
\* one with two of the three bits
C1_Witness ==
    /\ pc = "loop"
    /\ i = 3
    /\ msgs[1].isRoute /\ DropFlagged(msgs[1])
    /\ BitSet(msgs[1].Flags, 0) /\ BitSet(msgs[1].Flags, 28)
    /\ msgs[1].Index = 4 /\ msgs[1].Addrs[2].kind = "Inet4Addr"
    /\ msgs[2].isRoute /\ BitSet(msgs[2].Flags, 1) /\ BitSet(msgs[2].Flags, 2)
    /\ ~BitSet(msgs[2].Flags, 26)
    /\ Len(writer.buf) = 2
    /\ stdout = <<Banner>>

(***************************************************************************)
(* C2 as claimed.  Every emitted row whose message carries an IPv4 netmask *)
(* in slot 2 has destination "default" exactly when the mask is all zero,  *)
(* and otherwise "<dotted-quad of slot 0>/N" with N the number of leading  *)
(* one-bits of the big-endian 32-bit mask, contiguous or not.  Stated here *)
(* for the messages whose slot 3 is absent, so that the netmask is the     *)
(* last populated slot and the defect of C3 plays no part.                 *)
(***************************************************************************)
C2_AsClaimed ==
    [][ (Mapped /\ RowsAdded = 1 /\ msgs[i].Addrs[3].kind = "Inet4Addr"
           /\ ~Populated(msgs[i].Addrs[4])) =>
          LET mask == msgs[i].Addrs[3].IP
          IN IF mask = <<0, 0, 0, 0>>
             THEN NewRow[1] = "default"
             ELSE NewRow[1] = DottedQuad(msgs[i].Addrs[1].IP) \o "/"
                                \o ToString(LeadingOnes32(mask)) ]_vars

(***************************************************************************)
(* C3 as claimed.  In every emitted row the destination is the bare        *)
(* dotted-quad of slot 0 exactly when slot 2 is absent; when slot 2 is     *)
(* populated, however many later slots are populated too, the destination  *)
(* is "default" or "<dotted-quad>/N".                                      *)
(***************************************************************************)
C3_AsClaimed ==
    [][ (Mapped /\ RowsAdded = 1) =>
          LET bare == DottedQuad(msgs[i].Addrs[1].IP)
          IN IF Populated(msgs[i].Addrs[3])
             THEN \/ NewRow[1] = "default"
                  \/ \E n \in 1..32 : NewRow[1] = bare \o "/" \o ToString(n)
             ELSE NewRow[1] = bare ]_vars

(***************************************************************************)
(* C4 as claimed.  In every emitted row whose gateway is a link address:   *)
(* with a netmask slot present the gateway is "link#<k>", k the link       *)
(* address's own index; without one it is the hardware bytes in lowercase  *)
(* hex, unpadded, joined by ":".                                           *)
(***************************************************************************)
C4_AsClaimed ==
    [][ (Mapped /\ RowsAdded = 1 /\ msgs[i].Addrs[2].kind = "LinkAddr") =>
          IF Populated(msgs[i].Addrs[3])
          THEN NewRow[2] = "link#" \o ToString(msgs[i].Addrs[2].Index)
          ELSE NewRow[2] = HwString(msgs[i].Addrs[2].Addr) ]_vars

(***************************************************************************)
(* C5.  The run over the RIB of the single default route (destination      *)
(* 0.0.0.0, gateway 10.0.0.1, netmask 0.0.0.0, interface 4 = "en0", flags  *)
(* RTF_UP|RTF_GATEWAY) hands the writer the header and exactly one row.    *)
(***************************************************************************)
C5_Rib ==
    << RouteMsg(RTF_UP + RTF_GATEWAY, 4,
                Addrs(Inet4(0, 0, 0, 0), Inet4(10, 0, 0, 1), Inet4(0, 0, 0, 0), TailNone)) >>

C5_AtReturn == pc = "loop" /\ i > Len(msgs) /\ msgs = C5_Rib

\* C5 as claimed: the flags field is the two names joined by a comma
C5_AsClaimed ==
    C5_AtReturn =>
        writer.buf = << <<"Destination", "Gateway", "Netif", "Flags">>,
                        <<"default", "10.0.0.1", "en0", "RTF_GATEWAY,RTF_UP">> >>

\* C5 as amended: the flags field is Go's rendering of the name list,
\* "[RTF_GATEWAY RTF_UP]"; the fields are otherwise as claimed, and the
\* table reaches standard output as two aligned lines after the banner
C5_EndToEnd ==
    /\ C5_AtReturn =>
          writer.buf = << <<"Destination", "Gateway", "Netif", "Flags">>,
                          <<"default", "10.0.0.1", "en0", "[RTF_GATEWAY RTF_UP]">> >>
    /\ (pc = "exited" /\ exit = 0 /\ msgs = C5_Rib) =>
          stdout = << Banner,
                      "Destination  Gateway   Netif     Flags",
                      "default      10.0.0.1  en0       [RTF_GATEWAY RTF_UP]" >>

C5_Witness == pc = "exited" /\ exit = 0 /\ msgs = C5_Rib /\ Len(stdout) = 3

(***************************************************************************)
(* C6 as claimed.  A route message that is not drop-flagged and has an     *)
(* unresolvable interface index, or fewer than two populated slots, or a   *)
(* slot 0 that is not IPv4, or a gateway of neither IPv4 nor link family,  *)
(* or a populated slot 2 that is not an IPv4 netmask, yields no row and    *)
(* exactly one diagnostic line; the loop goes on, and the run that reached *)
(* the loop ends with status 0.                                            *)
(***************************************************************************)
C6_Failing(m) ==
    \/ ~InterfaceByIndex(m.Index).ok
    \/ PopulatedCount(m.Addrs) < 2
    \/ m.Addrs[1].kind # "Inet4Addr"
    \/ m.Addrs[2].kind \notin {"Inet4Addr", "LinkAddr"}
    \/ (Populated(m.Addrs[3]) /\ m.Addrs[3].kind # "Inet4Addr")

C6_AsClaimed ==
    /\ [][ (Mapped /\ ~DropFlagged(msgs[i]) /\ C6_Failing(msgs[i])) =>
             (RowsAdded = 0 /\ DiagsAdded = 1 /\ pc' = "loop") ]_vars
    /\ [](pc = "exited" /\ writer.created => exit = 0)

(***************************************************************************)
(* C7 as claimed.  A run in which the fetch or the parse fails ends with a *)
(* non-zero status, has mapped no message and has written nothing at all   *)
(* to standard output; every other run ends with status 0.                 *)
(***************************************************************************)
C7_AsClaimed ==
    /\ (pc = "exited" /\ stderr # <<>>) =>
          (exit # 0 /\ i = 0 /\ ~writer.created /\ stdout = <<>>)
    /\ (pc = "exited" /\ stderr = <<>>) => exit = 0

(***************************************************************************)
(* C8.  A run that created the writer flushes it exactly once: the flush   *)
(* is the step that ends the run, taken with the header written and every  *)
(* message handled, and no run ends without it once the writer exists; a   *)
(* run that fails before the writer exists never flushes.                  *)
(***************************************************************************)
C8_FlushOnce ==
    /\ [](flushes <= 1)
    /\ [](pc = "exited" => (flushes = 1 <=> writer.created))
    /\ [](~writer.created => flushes = 0)
    /\ [][ flushes' # flushes =>
             /\ flushes = 0 /\ flushes' = 1
             /\ writer.created /\ Len(writer.buf) >= 1 /\ writer.buf[1] = Header
             /\ i > Len(msgs)
             /\ pc' = "exited"
             /\ Len(stdout') = Len(stdout) + Len(writer.buf) ]_vars

\* a flushed run over two messages, one of them reported and skipped
C8_Witness ==
    /\ pc = "exited"
    /\ flushes = 1
    /\ Len(msgs) = 2
    /\ Len(stdout) = 4

(***************************************************************************)
(* C9 as claimed.  The populated-address count the mapper works with,      *)
(* once it gets to counting, is the number of slots before the first       *)
(* absent one, and the number of slots when none is absent.  Every route   *)
(* message that is not drop-flagged, whose interface resolves, whose count *)
(* is at least 2, whose slot 0 is IPv4, whose slot 1 is IPv4 or link-layer *)
(* and whose slot 2, if populated, is an IPv4 netmask yields exactly one   *)
(* row, appended after the rows of the messages before it.                 *)
(***************************************************************************)
C9_WellFormed(m) ==
    /\ ~DropFlagged(m)
    /\ InterfaceByIndex(m.Index).ok
    /\ PopulatedCount(m.Addrs) >= 2
    /\ m.Addrs[1].kind = "Inet4Addr"
    /\ m.Addrs[2].kind \in {"Inet4Addr", "LinkAddr"}
    /\ (Populated(m.Addrs[3]) => m.Addrs[3].kind = "Inet4Addr")

C9_AsClaimed ==
    [][ /\ (Mapped /\ ~DropFlagged(msgs[i]) /\ InterfaceByIndex(msgs[i].Index).ok) =>
              CountAddrs(msgs[i].Addrs) = PopulatedCount(msgs[i].Addrs)
        /\ (Mapped /\ C9_WellFormed(msgs[i])) =>
              /\ RowsAdded = 1
              /\ SubSeq(writer'.buf, 1, Len(writer.buf)) = writer.buf ]_vars

(***************************************************************************)
(* C10.  getFlags returns, for every mask, the names of exactly the known  *)
(* flags whose bit is set, each once, in the one scan order (RTF_GATEWAY   *)
(* before RTF_HOST before RTF_IFREF before RTF_UP, ...); bits of no known  *)
(* flag add nothing and the mask 0 gives the empty sequence.               *)
(***************************************************************************)
\* the known flags in scan order, each with the position of its bit
C10_Known ==
    << <<"RTF_BLACKHOLE", 12>>, <<"RTF_BROADCAST", 22>>, <<"RTF_CLONING", 8>>,
       <<"RTF_CONDEMNED", 25>>, <<"RTF_DELCLONE", 7>>,   <<"RTF_DONE", 6>>,
       <<"RTF_DYNAMIC", 4>>,    <<"RTF_GATEWAY", 1>>,    <<"RTF_HOST", 2>>,
       <<"RTF_IFREF", 26>>,     <<"RTF_IFSCOPE", 24>>,   <<"RTF_LLINFO", 10>>,
       <<"RTF_LOCAL", 21>>,     <<"RTF_MODIFIED", 5>>,   <<"RTF_MULTICAST", 23>>,
       <<"RTF_PINNED", 20>>,    <<"RTF_PRCLONING", 16>>, <<"RTF_PROTO1", 15>>,
       <<"RTF_PROTO2", 14>>,    <<"RTF_PROTO3", 18>>,    <<"RTF_REJECT", 3>>,
       <<"RTF_STATIC", 11>>,    <<"RTF_UP", 0>>,         <<"RTF_WASCLONED", 17>>,
       <<"RTF_XRESOLVE", 9>> >>

C10_GetFlags ==
    pc = "returned" =>
        /\ \A k \in 1..Len(C10_Known) :
              (\E j \in 1..Len(flagOut) : flagOut[j] = C10_Known[k][1])
                  <=> BitSet(flagIn, C10_Known[k][2])
        /\ \A j \in 1..Len(flagOut) : \E k \in 1..Len(C10_Known) : flagOut[j] = C10_Known[k][1]
        /\ \A a, b \in 1..Len(flagOut) :
              a < b => \E k, l \in 1..Len(C10_Known) :
                          /\ k < l
                          /\ flagOut[a] = C10_Known[k][1]
                          /\ flagOut[b] = C10_Known[l][1]
        /\ (flagIn = 0 => flagOut = <<>>)

\* the mask of all 29 low bits, four of them of no known flag
C10_Witness ==
    /\ pc = "returned"
    /\ flagIn = 2 ^ 29 - 1
    /\ Len(flagOut) = 25
    /\ flagOut[8] = "RTF_GATEWAY" /\ flagOut[9] = "RTF_HOST"
    /\ flagOut[10] = "RTF_IFREF" /\ flagOut[23] = "RTF_UP"

====
